---- MODULE Spec2Model ----
(***************************************************************************)
(* Model of notebooks/PET_sensitivity/odl_funcs/misc.py: the ellipse       *)
(* phantom rasterizer, the line rasterizer and the three random-canvas     *)
(* generators.                                                             *)
(*                                                                         *)
(* Every call is one behaviour: an Enter action binds the arguments and    *)
(* allocates the canvas, one action per loop iteration draws the random    *)
(* numbers of that iteration and applies the body, a Return action ends    *)
(* the call.  A raised exception ends the call with pc = "error".          *)
(***************************************************************************)
EXTENDS Integers, Sequences, FiniteSets

VARIABLES
    fn,          \* function being executed, "none" before the call
    pc,          \* "idle", "loop", "done" or "error"
    err,         \* name of the exception raised, "none" otherwise
    shape,       \* <<rows, cols>> of the canvas
    canvas,      \* the array: [Pixels(shape) -> Int], indexed <<row, col>>
    args,        \* arguments of the call
    i,           \* index of the next loop iteration
    entry,       \* history: the canvas when the call was entered
    writes,      \* history: raw index pairs <<row, col>> written by the last fill_line calls
    edges,       \* history: segments passed to fill_line in the last iteration
    prims,       \* history: [region, color] of the primitives stamped so far, in order
    last,        \* history: the random draws of the last loop iteration
    expected,    \* history: per pixel, the summed intensity of the ellipses containing it
    randomBound  \* whether the module global `random` is bound during the call

vars == <<fn, pc, err, shape, canvas, args, i, entry, writes, edges, prims, last, expected, randomBound>>

(***************************************************************************)
(* Bounds of the model.                                                    *)
(***************************************************************************)
MaxLineDim == 4    \* fill_line is called on canvases of 1..MaxLineDim rows and columns
MaxDim == 3        \* polygon canvases have 1..MaxDim rows and columns
MaxSmallDim == 2   \* camouflage, shape and ellipse canvases have 1..MaxSmallDim rows and columns
MaxNum == 2        \* num_patches and num_shapes range over 0..MaxNum
MaxPolygons == 1   \* num_polygons ranges over 0..MaxPolygons
MaxSize == 4       \* max_size argument of the generators (sizes are < MaxSize)
MaxEllipses == 2   \* the list of ellipses has 0..MaxEllipses entries

Abs(n) == IF n < 0 THEN -n ELSE n
Max2(a, b) == IF a >= b THEN a ELSE b
Min2(a, b) == IF a <= b THEN a ELSE b

Shapes(k) == (1..k) \X (1..k)
Rows(sh) == 0..(sh[1] - 1)
Cols(sh) == 0..(sh[2] - 1)
Pixels(sh) == Rows(sh) \X Cols(sh)

\* np.zeros(shape)
Zeros(sh) == [p \in Pixels(sh) |-> 0]

(***************************************************************************)
(* IEEE-754 binary64 arithmetic, as far as fill_line and the polygon       *)
(* vertices use it.  A finite value is <<sign, hi, mid, lo>> and stands    *)
(* for sign * (hi*2^40 + mid*2^20 + lo) * 2^-56.  Every binary64 value v   *)
(* with 2^-4 <= |v| < 16 is a multiple of 2^-56, and so is every sum or    *)
(* difference of such values, so the operations below are exact images of  *)
(* the hardware operations (round to nearest, ties to even, 53 significant *)
(* bits) on that range.  It covers canvases of up to 16 rows and columns.  *)
(***************************************************************************)
Limb == 2^20
One == 2^16          \* weight of 1.0 in the hi limb
NaN == <<0, 0, 0, 0>>
Zero == <<1, 0, 0, 0>>

Norm(s, h, m, l) == IF h = 0 /\ m = 0 /\ l = 0 THEN Zero ELSE <<s, h, m, l>>

\* number of low bits of lo that do not fit in a 53-bit significand:
\* the significand starts at the leading bit of hi, which holds 13 bits of it
\* when hi < 2^13 and loses one more bit with every doubling
DropBits(h) ==
    IF h < 2^13 THEN 0
    ELSE IF h < 2^14 THEN 1
    ELSE IF h < 2^15 THEN 2
    ELSE IF h < 2^16 THEN 3
    ELSE IF h < 2^17 THEN 4
    ELSE IF h < 2^18 THEN 5
    ELSE IF h < 2^19 THEN 6
    ELSE IF h < 2^20 THEN 7
    ELSE 8

\* round the magnitude (h,m,l) + remNum/remDen to 53 significant bits
Round53(h, m, l, remNum, remDen) ==
    LET q     == 2^DropBits(h)
        low   == l % q
        twice == 2 * (low * remDen + remNum)
        full  == q * remDen
        odd   == (l \div q) % 2 = 1
        up    == twice > full \/ (twice = full /\ odd)
        l2    == (l - low) + (IF up THEN q ELSE 0)
        m2    == m + (l2 \div Limb)
    IN  <<h + (m2 \div Limb), m2 % Limb, l2 % Limb>>

\* conversion of an integer to float
FromInt(k) == Norm(IF k >= 0 THEN 1 ELSE -1, Abs(k) * One, 0, 0)

\* a / d for integers |a| <= d, d > 0 (true division)
Div(a, d) ==
    LET n0 == Abs(a) * One
        h  == n0 \div d
        r0 == n0 % d
        m  == (r0 * Limb) \div d
        r1 == (r0 * Limb) % d
        l  == (r1 * Limb) \div d
        r2 == (r1 * Limb) % d
        r  == Round53(h, m, l, r2, d)
    IN  Norm(IF a >= 0 THEN 1 ELSE -1, r[1], r[2], r[3])

MagLess(a, b) ==
    \/ a[2] < b[2]
    \/ a[2] = b[2] /\ a[3] < b[3]
    \/ a[2] = b[2] /\ a[3] = b[3] /\ a[4] < b[4]

AddMag(a, b) ==
    LET l == a[4] + b[4]
        m == a[3] + b[3] + (l \div Limb)
    IN  <<a[2] + b[2] + (m \div Limb), m % Limb, l % Limb>>

\* |a| - |b| for |a| >= |b|
SubMag(a, b) ==
    LET bl == IF a[4] < b[4] THEN 1 ELSE 0
        l  == a[4] - b[4] + bl * Limb
        bm == IF a[3] - bl < b[3] THEN 1 ELSE 0
        m  == a[3] - bl - b[3] + bm * Limb
    IN  <<a[2] - bm - b[2], m, l>>

\* a + b
Add(a, b) ==
    IF a = NaN \/ b = NaN THEN NaN
    ELSE LET s == IF a[1] = b[1] \/ ~MagLess(a, b) THEN a[1] ELSE b[1]
             e == IF a[1] = b[1] THEN AddMag(a, b)
                  ELSE IF MagLess(a, b) THEN SubMag(b, a)
                  ELSE SubMag(a, b)
             r == Round53(e[1], e[2], e[3], 0, 1)
         IN  Norm(s, r[1], r[2], r[3])

\* k * a for an integer k
MulInt(k, a) ==
    LET n == Abs(k)
        l == a[4] * n
        m == a[3] * n + (l \div Limb)
        h == a[2] * n + (m \div Limb)
        r == Round53(h, m % Limb, l % Limb, 0, 1)
    IN  Norm(IF k >= 0 THEN a[1] ELSE -a[1], r[1], r[2], r[3])

\* int(a): truncation towards zero
Trunc(a) == a[1] * (a[2] \div One)

\* np.round(a).astype(int): nearest integer, ties to even
RoundHalfEven(a) ==
    LET ip   == a[2] \div One
        fh   == a[2] % One
        half == One \div 2
        up   == \/ fh > half
                \/ fh = half /\ (a[3] > 0 \/ a[4] > 0)
                \/ fh = half /\ a[3] = 0 /\ a[4] = 0 /\ ip % 2 = 1
    IN  a[1] * (ip + (IF up THEN 1 ELSE 0))

(***************************************************************************)
(* canvas[r, c] = color on a NumPy array: an index in -n..-1 counts from   *)
(* the end, an index outside -n..n-1 raises IndexError.                    *)
(***************************************************************************)
ValidIndex(k, n) == -n <= k /\ k < n
WrapIndex(k, n) == IF k < 0 THEN k + n ELSE k

SetItem(cv, sh, r, c, color) ==
    IF ValidIndex(r, sh[1]) /\ ValidIndex(c, sh[2])
    THEN [cv |-> [cv EXCEPT ![<<WrapIndex(r, sh[1]), WrapIndex(c, sh[2])>>] = color],
          err |-> "none"]
    ELSE [cv |-> cv, err |-> "IndexError"]

(***************************************************************************)
(* fill_line.  numpy tells whether the end points are NumPy integer        *)
(* scalars (as random_polygons_array passes them) or built-in ints: with   *)
(* d = 0 the division raises ZeroDivisionError on built-in ints and gives  *)
(* nan (with a RuntimeWarning) on NumPy scalars.                           *)
(***************************************************************************)
\* the loop of lines 275-278, from iteration k on
RECURSIVE LineLoop(_, _, _, _, _, _, _, _, _, _)
LineLoop(cv, sh, x, y, sx, sy, k, d, color, ws) ==
    IF k > d THEN [canvas |-> cv, err |-> "none", writes |-> ws]
    ELSE IF x = NaN \/ y = NaN
    THEN [canvas |-> cv, err |-> "ValueError", writes |-> ws]
    ELSE LET r == SetItem(cv, sh, Trunc(y), Trunc(x), color)
         IN  IF r.err # "none"
             THEN [canvas |-> cv, err |-> r.err, writes |-> ws]
             ELSE LineLoop(r.cv, sh, Add(x, sx), Add(y, sy), sx, sy, k + 1, d,
                           color, Append(ws, <<Trunc(y), Trunc(x)>>))

LineD(x1, y1, x2, y2) == Max2(Abs(x2 - x1), Abs(y2 - y1))

\* fill_line with the zero-length segment special-cased: one pixel, no division
fill_line_guarded(cv, sh, x1, y1, x2, y2, color, numpy) ==
    LET dx == x2 - x1
        dy == y2 - y1
        d  == LineD(x1, y1, x2, y2)
        sx == IF d = 0 THEN Zero ELSE Div(dx, d)
        sy == IF d = 0 THEN Zero ELSE Div(dy, d)
    IN  LineLoop(cv, sh, FromInt(x1), FromInt(y1), sx, sy, 0, d, color, <<>>)

fill_line(cv, sh, x1, y1, x2, y2, color, numpy) ==
    LET dx == x2 - x1
        dy == y2 - y1
        d  == LineD(x1, y1, x2, y2)
    IN  IF d = 0 /\ ~numpy
        THEN [canvas |-> cv, err |-> "ZeroDivisionError", writes |-> <<>>]
        ELSE LET sx == IF d = 0 THEN NaN ELSE Div(dx, d)
                 sy == IF d = 0 THEN NaN ELSE Div(dy, d)
             IN  LineLoop(cv, sh, FromInt(x1), FromInt(y1), sx, sy, 0, d, color, <<>>)

(***************************************************************************)
(* Initial state: the module is imported, no call is in progress.  The     *)
(* module imports numpy and scipy only (lines 15-16); the name `random`    *)
(* that random_camouflage_array reads resolves only if the importing       *)
(* program has bound it in the module's namespace (misc.random = random)   *)
(* before the call, which EnterCamouflage leaves open.                     *)
(***************************************************************************)
NoArgs == [none |-> TRUE]

Init ==
    /\ fn = "none"
    /\ pc = "idle"
    /\ err = "none"
    /\ shape = <<1, 1>>
    /\ canvas = Zeros(<<1, 1>>)
    /\ args = NoArgs
    /\ i = 0
    /\ entry = Zeros(<<1, 1>>)
    /\ writes = <<>>
    /\ edges = <<>>
    /\ prims = <<>>
    /\ last = NoArgs
    /\ expected = Zeros(<<1, 1>>)
    /\ randomBound = FALSE

(***************************************************************************)
(* A direct call of fill_line on a canvas with a uniform background.       *)
(***************************************************************************)
Backgrounds == {0, 9}
LineColors == {7}

EnterFillLine ==
    /\ pc = "idle"
    /\ \E sh \in Shapes(MaxLineDim), bg \in Backgrounds, color \in LineColors, np \in BOOLEAN :
       \E x1 \in Cols(sh), x2 \in Cols(sh), y1 \in Rows(sh), y2 \in Rows(sh) :
          /\ shape' = sh
          /\ canvas' = [p \in Pixels(sh) |-> bg]
          /\ entry' = [p \in Pixels(sh) |-> bg]
          /\ args' = [x1 |-> x1, y1 |-> y1, x2 |-> x2, y2 |-> y2,
                      color |-> color, numpy |-> np]
    /\ fn' = "fill_line"
    /\ pc' = "loop"
    /\ UNCHANGED <<err, i, writes, edges, prims, last, expected, randomBound>>

RunFillLine ==
    /\ pc = "loop"
    /\ fn = "fill_line"
    /\ \E r \in {fill_line(canvas, shape, args.x1, args.y1, args.x2, args.y2,
                             args.color, args.numpy)} :
           /\ canvas' = r.canvas
           /\ writes' = r.writes
           /\ err' = r.err
           /\ pc' = IF r.err = "none" THEN "done" ELSE "error"
    /\ UNCHANGED <<fn, shape, args, i, entry, edges, prims, last, expected, randomBound>>

NextLine == EnterFillLine \/ RunFillLine

SpecLine == Init /\ [][NextLine]_vars

(***************************************************************************)
(* random_polygons_array.  CosTable(n)[j+1] and SinTable(n)[j+1] are the   *)
(* binary64 values of np.cos and np.sin at theta[j] = j * (2*pi/n), the    *)
(* points of np.linspace(0, 2*pi, n, endpoint=False).  The values of       *)
(* magnitude below 2^-52 (the images of cos(pi/2), sin(pi), ...) are       *)
(* stored as Zero: times a size below 16 and added to an integer centre    *)
(* they move the sum by less than one unit in the last place, so np.round  *)
(* returns the centre either way.                                          *)
(* The table holds the correctly rounded values; a NumPy build whose       *)
(* cos/sin differ from them in the last place can round a vertex on a tie  *)
(* (size * 0.5 with odd size) to the neighbouring pixel.                   *)
(***************************************************************************)
CosTable(n) ==
    IF n = 3 THEN <<<<1, 65536, 0, 0>>,
        <<-1, 32767, 1048575, 1048560>>,
        <<-1, 32768, 0, 32>>>>
        \* 1.0, -0.4999999999999998, -0.5000000000000004
    ELSE IF n = 4 THEN <<<<1, 65536, 0, 0>>,
        Zero,
        <<-1, 65536, 0, 0>>,
        Zero>>
        \* 1.0, 6.123233995736766e-17, -1.0, -1.8369701987210297e-16
    ELSE IF n = 5 THEN <<<<1, 65536, 0, 0>>,
        <<1, 20251, 773579, 1025344>>,
        <<-1, 53019, 773579, 1025336>>,
        <<-1, 53019, 773579, 1025352>>,
        <<1, 20251, 773579, 1025328>>>>
        \* 1.0, 0.30901699437494745, -0.8090169943749473, -0.8090169943749476, 0.30901699437494723
    ELSE IF n = 6 THEN <<<<1, 65536, 0, 0>>,
        <<1, 32768, 0, 8>>,
        <<-1, 32767, 1048575, 1048560>>,
        <<-1, 65536, 0, 0>>,
        <<-1, 32768, 0, 32>>,
        <<1, 32767, 1048575, 1048528>>>>
        \* 1.0, 0.5000000000000001, -0.4999999999999998, -1.0, -0.5000000000000004, 0.49999999999999933
    ELSE IF n = 7 THEN <<<<1, 65536, 0, 0>>,
        <<1, 40861, 28997, 1011344>>,
        <<-1, 14583, 138336, 297728>>,
        <<-1, 59045, 939237, 713600>>,
        <<-1, 59045, 939237, 713608>>,
        <<-1, 14583, 138336, 297746>>,
        <<1, 40861, 28997, 1011328>>>>
        \* 1.0, 0.6234898018587336, -0.22252093395631434, -0.900968867902419, -0.9009688679024191, -0.2225209339563146, 0.6234898018587334
    ELSE <<>>
SinTable(n) ==
    IF n = 3 THEN <<Zero,
        <<1, 56755, 881708, 157016>>,
        <<-1, 56755, 881708, 156992>>>>
        \* 0.0, 0.8660254037844387, -0.8660254037844384
    ELSE IF n = 4 THEN <<Zero,
        <<1, 65536, 0, 0>>,
        Zero,
        <<-1, 65536, 0, 0>>>>
        \* 0.0, 1.0, 1.2246467991473532e-16, -1.0
    ELSE IF n = 5 THEN <<Zero,
        <<1, 62328, 461218, 174072>>,
        <<1, 38521, 98874, 709368>>,
        <<-1, 38521, 98874, 709352>>,
        <<-1, 62328, 461218, 174080>>>>
        \* 0.0, 0.9510565162951535, 0.5877852522924732, -0.587785252292473, -0.9510565162951536
    ELSE IF n = 6 THEN <<Zero,
        <<1, 56755, 881708, 157008>>,
        <<1, 56755, 881708, 157016>>,
        Zero,
        <<-1, 56755, 881708, 156992>>,
        <<-1, 56755, 881708, 157040>>>>
        \* 0.0, 0.8660254037844386, 0.8660254037844387, 1.2246467991473532e-16, -0.8660254037844384, -0.866025403784439
    ELSE IF n = 7 THEN <<Zero,
        <<1, 51238, 113282, 979544>>,
        <<1, 63892, 918188, 478024>>,
        <<1, 28435, 4956, 438028>>,
        <<-1, 28435, 4956, 438012>>,
        <<-1, 63892, 918188, 478024>>,
        <<-1, 51238, 113282, 979552>>>>
        \* 0.0, 0.7818314824680298, 0.9749279121818236, 0.43388373911755823, -0.433883739117558, -0.9749279121818236, -0.7818314824680299
    ELSE <<>>

MinN == 3          \* default min_n
MaxN == 8          \* default max_n
MinSize == 2       \* min_size argument of the generators
PolyColors == {254}        \* a value of np.random.randint(low=1, high=255)

\* a clip whose upper limit is the axis length instead of the last index
ClipToLength(v, lo, hi) == Min2(Max2(v, lo), hi + 1)

\* np.clip(v, lo, hi)
Clip(v, lo, hi) == Min2(Max2(v, lo), hi)

\* lines 244-254: the clipped integer vertices, as <<x, y>>, 1-indexed
PolyVertices(sh, cx, cy, size, n) ==
    [j \in 1..n |->
        <<Clip(RoundHalfEven(Add(FromInt(cx), MulInt(size, CosTable(n)[j]))), 0, sh[2] - 1),
          Clip(RoundHalfEven(Add(FromInt(cy), MulInt(size, SinTable(n)[j]))), 0, sh[1] - 1)>>]

\* lines 257-260: the edges j, j+1, ..., n-1 of the polygon
RECURSIVE PolyEdges(_, _, _, _, _, _, _, _)
PolyEdges(cv, sh, vs, n, j, color, es, ws) ==
    IF j >= n THEN [canvas |-> cv, err |-> "none", edges |-> es, writes |-> ws]
    ELSE LET a == vs[j + 1]
             b == vs[((j + 1) % n) + 1]
             r == fill_line(cv, sh, a[1], a[2], b[1], b[2], color, TRUE)
             e == Append(es, <<a[1], a[2], b[1], b[2]>>)
         IN  IF r.err # "none"
             THEN [canvas |-> r.canvas, err |-> r.err, edges |-> e, writes |-> ws \o r.writes]
             ELSE PolyEdges(r.canvas, sh, vs, n, j + 1, color, e, ws \o r.writes)

EnterPolygons ==
    /\ pc = "idle"
    /\ \E sh \in Shapes(MaxDim), num \in 0..MaxPolygons :
          /\ shape' = sh
          /\ canvas' = Zeros(sh)
          /\ entry' = Zeros(sh)
          /\ args' = [num |-> num, min_n |-> MinN, max_n |-> MaxN,
                      min_size |-> MinSize, max_size |-> MaxSize]
    /\ fn' = "polygons"
    /\ pc' = "loop"
    /\ i' = 0
    /\ UNCHANGED <<err, writes, edges, prims, last, expected, randomBound>>

IterPolygons ==
    /\ pc = "loop"
    /\ fn = "polygons"
    /\ i < args.num
    /\ \E cx \in Cols(shape), cy \in Rows(shape),
          size \in args.min_size..(args.max_size - 1),
          n \in args.min_n..(args.max_n - 1), color \in PolyColors :
          \E r \in {PolyEdges(canvas, shape, PolyVertices(shape, cx, cy, size, n),
                                n, 0, color, <<>>, <<>>)} :
              /\ canvas' = r.canvas
              /\ edges' = r.edges
              /\ writes' = r.writes
              /\ err' = r.err
              /\ pc' = IF r.err = "none" THEN "loop" ELSE "error"
    /\ i' = i + 1
    /\ UNCHANGED <<fn, shape, args, entry, prims, last, expected, randomBound>>

ReturnPolygons ==
    /\ pc = "loop"
    /\ fn = "polygons"
    /\ i >= args.num
    /\ pc' = "done"
    /\ UNCHANGED <<fn, err, shape, canvas, args, i, entry, writes, edges, prims, last, expected, randomBound>>



(***************************************************************************)
(* Basic slicing a[start:stop] of an axis of length n, as Python and NumPy *)
(* define it: a negative bound counts from the end, a bound outside the    *)
(* axis is truncated to it, and no bound raises an exception.              *)
(***************************************************************************)
SliceBound(k, n) == IF k < 0 THEN Max2(k + n, 0) ELSE Min2(k, n)
SliceRange(start, stop, n) == SliceBound(start, n)..(SliceBound(stop, n) - 1)

\* a slice that raises, as an integer index does, when it ends past the axis
SliceErrorStrict(start, stop, n) == IF stop > n THEN "IndexError" ELSE "none"

\* the exception that a[start:stop] raises on an axis of length n
SliceError(start, stop, n) == "none"

\* an assignment that only fills pixels still at the background value 0
StampBackground(cv, region, color) ==
    [p \in DOMAIN cv |-> IF p \in region /\ cv[p] = 0 THEN color ELSE cv[p]]

\* canvas[region] = color
Stamp(cv, region, color) == [p \in DOMAIN cv |-> IF p \in region THEN color ELSE cv[p]]

(***************************************************************************)
(* random_camouflage_array                                                 *)
(***************************************************************************)
Palette == {0, 128, 255}     \* default of the colors argument

\* lines 214-227: the pixels of canvas[y1:y2, x1:x2]
PatchRegion(sh, cx, cy, size) ==
    LET x1 == Clip(cx - size \div 2, 0, sh[2] - 1)
        y1 == Clip(cy - size \div 2, 0, sh[1] - 1)
        x2 == Clip(cx + size \div 2, 0, sh[2] - 1)
        y2 == Clip(cy + size \div 2, 0, sh[1] - 1)
    IN  SliceRange(y1, y2, sh[1]) \X SliceRange(x1, x2, sh[2])

EnterCamouflage ==
    /\ pc = "idle"
    /\ \E sh \in Shapes(MaxSmallDim), num \in 0..MaxNum :
          /\ shape' = sh
          /\ canvas' = Zeros(sh)
          /\ entry' = Zeros(sh)
          /\ args' = [num |-> num, min_size |-> MinSize, max_size |-> MaxSize]
    /\ randomBound' \in BOOLEAN
    /\ fn' = "camouflage"
    /\ pc' = "loop"
    /\ i' = 0
    /\ UNCHANGED <<err, writes, edges, prims, last, expected>>

\* one iteration of the loop of lines 207-227; line 212 reads the global `random`
IterCamouflage ==
    /\ pc = "loop"
    /\ fn = "camouflage"
    /\ i < args.num
    /\ \E cx \in Cols(shape), cy \in Rows(shape),
          size \in args.min_size..(args.max_size - 1) :
          IF ~randomBound
          THEN /\ err' = "NameError"
               /\ pc' = "error"
               /\ last' = [kind |-> "patch", cx |-> cx, cy |-> cy, size |-> size,
                           color |-> 0, stamped |-> FALSE]
               /\ UNCHANGED <<canvas, prims>>
          ELSE \E color \in Palette :
               \E region \in {PatchRegion(shape, cx, cy, size)} :
                  /\ canvas' = Stamp(canvas, region, color)
                  /\ prims' = Append(prims, [region |-> region, color |-> color])
                  /\ last' = [kind |-> "patch", cx |-> cx, cy |-> cy, size |-> size,
                              color |-> color, stamped |-> TRUE]
                  /\ UNCHANGED <<err, pc>>
    /\ i' = i + 1
    /\ UNCHANGED <<fn, shape, args, entry, writes, edges, expected, randomBound>>

ReturnCamouflage ==
    /\ pc = "loop"
    /\ fn = "camouflage"
    /\ i >= args.num
    /\ pc' = "done"
    /\ UNCHANGED <<fn, err, shape, canvas, args, i, entry, writes, edges, prims, last, expected, randomBound>>

(***************************************************************************)
(* random_shapes_array                                                     *)
(***************************************************************************)
ShapeColors == {1, 254}      \* values of np.random.randint(low=1, high=255)

\* lines 297-309: the pixels of canvas[y_min:y_max, x_min:x_max]
RectRegion(sh, cx, cy, size) ==
    LET x_min == Max2(0, cx - size \div 2)
        x_max == Min2(sh[2], cx + size \div 2)
        y_min == Max2(0, cy - size \div 2)
        y_max == Min2(sh[1], cy + size \div 2)
    IN  SliceRange(y_min, y_max, sh[1]) \X SliceRange(x_min, x_max, sh[2])

\* squared distance of pixel p = <<row, col>> from the centre
Dist2(p, cx, cy) == (p[2] - cx) * (p[2] - cx) + (p[1] - cy) * (p[1] - cy)

\* the mask with a true division: distances <= size/2
CircleMaskTrueDiv(sh, cx, cy, size) ==
    {p \in Pixels(sh) : 4 * Dist2(p, cx, cy) <= size * size}

\* lines 313-319: mask = distances <= size//2.  distances is the correctly
\* rounded square root of the integer Dist2, which is <= the integer size//2
\* exactly when Dist2 <= (size//2)^2.
CircleMask(sh, cx, cy, size) ==
    {p \in Pixels(sh) : Dist2(p, cx, cy) <= (size \div 2) * (size \div 2)}

EnterShapes ==
    /\ pc = "idle"
    /\ \E sh \in Shapes(MaxSmallDim), num \in 0..MaxNum :
          /\ shape' = sh
          /\ canvas' = Zeros(sh)
          /\ entry' = Zeros(sh)
          /\ args' = [num |-> num, min_size |-> MinSize, max_size |-> MaxSize]
    /\ fn' = "shapes"
    /\ pc' = "loop"
    /\ i' = 0
    /\ UNCHANGED <<err, writes, edges, prims, last, expected, randomBound>>

\* one iteration of the loop of lines 286-322
IterShapes ==
    /\ pc = "loop"
    /\ fn = "shapes"
    /\ i < args.num
    /\ \E cx \in Cols(shape), cy \in Rows(shape),
          size \in args.min_size..(args.max_size - 1),
          color \in ShapeColors, choose_shape \in {"rectangle", "circle"} :
          \E region \in {IF choose_shape = "rectangle"
                         THEN RectRegion(shape, cx, cy, size)
                         ELSE CircleMask(shape, cx, cy, size)} :
             /\ canvas' = Stamp(canvas, region, color)
             /\ prims' = Append(prims, [region |-> region, color |-> color])
             /\ last' = [kind |-> choose_shape, cx |-> cx, cy |-> cy, size |-> size,
                         color |-> color, stamped |-> TRUE]
    /\ i' = i + 1
    /\ UNCHANGED <<fn, pc, err, shape, args, entry, writes, edges, expected, randomBound>>

ReturnShapes ==
    /\ pc = "loop"
    /\ fn = "shapes"
    /\ i >= args.num
    /\ pc' = "done"
    /\ UNCHANGED <<fn, err, shape, canvas, args, i, entry, writes, edges, prims, last, expected, randomBound>>

(***************************************************************************)
(* The specifications: each generator alone, the two stamping generators,  *)
(* and the three random-canvas generators together.                        *)
(***************************************************************************)
NextPoly == EnterPolygons \/ IterPolygons \/ ReturnPolygons

SpecPoly == Init /\ [][NextPoly]_vars

NextStamp ==
    \/ EnterCamouflage \/ IterCamouflage \/ ReturnCamouflage
    \/ EnterShapes \/ IterShapes \/ ReturnShapes

SpecStamp == Init /\ [][NextStamp]_vars

Next ==
    \/ EnterCamouflage \/ IterCamouflage \/ ReturnCamouflage
    \/ EnterPolygons \/ IterPolygons \/ ReturnPolygons
    \/ EnterShapes \/ IterShapes \/ ReturnShapes

Spec == Init /\ [][Next]_vars

(***************************************************************************)
(* ellipse_phantom.  Lengths are held in halves: an ellipse spec is        *)
(* [value, a, b, x0, y0, theta] with semi-axes a/2, b/2 and centre         *)
(* (x0/2, y0/2); theta is <<c, s, d>> for the angle with cosine c/d and    *)
(* sine s/d, <<1, 0, 1>> being theta = 0.  The first array axis is the x   *)
(* axis.  All arithmetic is exact rational arithmetic by cross             *)
(* multiplication.  For theta = 0, semi-axes that are powers of two and    *)
(* canvases of 1, 2, 3 or 5 points per axis, every intermediate value of   *)
(* the code is exactly representable in binary64, so the floating-point    *)
(* code computes the same values; the rotated branch is evaluated for the  *)
(* angle with cosine 3/5 and sine 4/5 in exact arithmetic.                 *)
(***************************************************************************)
Axes == {1, 2}                       \* semi-axes 0.5, 1
Centres == {-3, -2, 0, 2, 3}         \* centre coordinates -1.5, -1, 0, 1, 1.5
Intensities == {1}
Thetas == {<<1, 0, 1>>, <<3, 4, 5>>}

EllipseSpecs ==
    [value : Intensities, a : Axes, b : Axes, x0 : Centres, y0 : Centres, theta : Thetas]

\* lines 64-75: the k-th grid coordinate of an axis of n points is GridNum/GridDen:
\* (np.linspace(0, 1, n)[k] - 0.5) / 0.5
GridDen(n) == Max2(n - 1, 1)
GridNum(k, n) == 2 * k - GridDen(n)

\* line 102 / 116: max_radius[axis]^2 = RadiusNum / RadiusDen
RadiusNum(e, axis) ==
    IF e.theta[2] = 0
    THEN (IF axis = 1 THEN e.a * e.a ELSE e.b * e.b)
    ELSE (IF axis = 1
          THEN Abs(e.theta[1]) * e.a * e.a + Abs(e.theta[2]) * e.b * e.b
          ELSE Abs(e.theta[2]) * e.a * e.a + Abs(e.theta[1]) * e.b * e.b)
RadiusDen(e) == IF e.theta[2] = 0 THEN 4 ELSE 4 * e.theta[3]

\* lines 21-26 for one axis of n points, centre (x0/2 + 1)/2, so that
\* index_mean = n*(x0+2)/4 and index_radius^2 = n^2 * rn / (4*rd):
\* k <= index_mean - index_radius  and  k >= index_mean + index_radius
BelowBox(k, n, x0, rn, rd) ==
    LET t == n * (x0 + 2) - 4 * k IN t >= 0 /\ rd * t * t >= 4 * n * n * rn
AboveBox(k, n, x0, rn, rd) ==
    LET t == 4 * k - n * (x0 + 2) IN t >= 0 /\ rd * t * t >= 4 * n * n * rn

\* np.maximum(np.floor(index_mean - index_radius), 0)
MinIdx(n, x0, rn, rd) ==
    IF BelowBox(0, n, x0, rn, rd)
    THEN CHOOSE k \in 0..(4 * n) : BelowBox(k, n, x0, rn, rd) /\ ~BelowBox(k + 1, n, x0, rn, rd)
    ELSE 0

\* np.ceil(index_mean + index_radius)
MaxIdx(n, x0, rn, rd) ==
    CHOOSE k \in (-4 * n)..(8 * n) : AboveBox(k, n, x0, rn, rd) /\ ~AboveBox(k - 1, n, x0, rn, rd)

\* _getshapes_2d: <<min_idx[0], max_idx[0], min_idx[1], max_idx[1]>>
_getshapes_2d(sh, e) ==
    <<MinIdx(sh[1], e.x0, RadiusNum(e, 1), RadiusDen(e)),
      MaxIdx(sh[1], e.x0, RadiusNum(e, 1), RadiusDen(e)),
      MinIdx(sh[2], e.y0, RadiusNum(e, 2), RadiusDen(e)),
      MaxIdx(sh[2], e.y0, RadiusNum(e, 2), RadiusDen(e))>>

\* lines 106-129: radius <= 1 at pixel p = <<i0, i1>>
Inside(sh, e, p) ==
    LET vx == 2 * GridDen(sh[1])
        ux == 2 * GridNum(p[1], sh[1]) - e.x0 * GridDen(sh[1])    \* x - x0 = ux / vx
        vy == 2 * GridDen(sh[2])
        uy == 2 * GridNum(p[2], sh[2]) - e.y0 * GridDen(sh[2])    \* y - y0 = uy / vy
        c  == e.theta[1]
        s  == e.theta[2]
        d  == e.theta[3]
        r0 == c * ux * vy + s * uy * vx       \* rotated[0] = r0 / (d*vx*vy)
        r1 == c * uy * vx - s * ux * vy       \* rotated[1] = r1 / (d*vx*vy)
    IN  IF s # 0
        THEN 4 * r0 * r0 * e.b * e.b + 4 * r1 * r1 * e.a * e.a
                 <= d * d * vx * vx * vy * vy * e.a * e.a * e.b * e.b
        ELSE 4 * ux * ux * vy * vy * e.b * e.b + 4 * uy * uy * vx * vx * e.a * e.a
                 <= vx * vx * vy * vy * e.a * e.a * e.b * e.b

\* lines 106/119 and 132: g[idi] and p[idx], idx being the slices of box
BoxError(sh, box) ==
    IF SliceError(box[1], box[2], sh[1]) # "none"
    THEN SliceError(box[1], box[2], sh[1])
    ELSE SliceError(box[3], box[4], sh[2])

\* line 132: p[idx][inside] += intensity
AddEllipse(cv, sh, e, box) ==
    LET rows == SliceRange(box[1], box[2], sh[1])
        cols == SliceRange(box[3], box[4], sh[2])
    IN  [p \in DOMAIN cv |->
            IF p[1] \in rows /\ p[2] \in cols /\ Inside(sh, e, p)
            THEN cv[p] + e.value ELSE cv[p]]

\* the bounding box reaches past the end of an axis
Overhangs(sh, box) == box[2] > sh[1] \/ box[4] > sh[2]

EnterEllipse ==
    /\ pc = "idle"
    /\ \E sh \in Shapes(MaxSmallDim), num \in 0..MaxEllipses :
          /\ shape' = sh
          /\ canvas' = Zeros(sh)
          /\ entry' = Zeros(sh)
          /\ expected' = Zeros(sh)
          /\ args' = [num |-> num]
    /\ fn' = "ellipse"
    /\ pc' = "loop"
    /\ i' = 0
    /\ UNCHANGED <<err, writes, edges, prims, last, randomBound>>

\* one iteration of the loop of lines 77-132, on the next spec of the list
IterEllipse ==
    /\ pc = "loop"
    /\ fn = "ellipse"
    /\ i < args.num
    /\ \E e \in EllipseSpecs :
       \E box \in {_getshapes_2d(shape, e)} :
          /\ last' = [kind |-> "ellipse", overhang |-> Overhangs(shape, box)]
          /\ expected' = [p \in DOMAIN expected |->
                            expected[p] + (IF Inside(shape, e, p) THEN e.value ELSE 0)]
          /\ IF BoxError(shape, box) # "none"
             THEN /\ err' = BoxError(shape, box)
                  /\ pc' = "error"
                  /\ UNCHANGED canvas
             ELSE /\ canvas' = AddEllipse(canvas, shape, e, box)
                  /\ UNCHANGED <<err, pc>>
    /\ i' = i + 1
    /\ UNCHANGED <<fn, shape, args, entry, writes, edges, prims, randomBound>>

ReturnEllipse ==
    /\ pc = "loop"
    /\ fn = "ellipse"
    /\ i >= args.num
    /\ pc' = "done"
    /\ UNCHANGED <<fn, err, shape, canvas, args, i, entry, writes, edges, prims, last,
                   expected, randomBound>>

NextEllipse == EnterEllipse \/ IterEllipse \/ ReturnEllipse

SpecEllipse == Init /\ [][NextEllipse]_vars

(***************************************************************************)
(* Properties of fill_line, checked under SpecLine.                        *)
(***************************************************************************)
LineReturned == fn = "fill_line" /\ pc \in {"done", "error"}

\* the pixels <<floor(y1 + k*dy/d), floor(x1 + k*dx/d)>>, k = 0..d, in exact arithmetic
SegmentPixels(x1, y1, x2, y2) ==
    LET d == LineD(x1, y1, x2, y2)
    IN  {<<(y1 * d + k * (y2 - y1)) \div d, (x1 * d + k * (x2 - x1)) \div d>> : k \in 0..d}

\* C3: a call of fill_line on a segment with distinct in-bounds end points
\* returns after d+1 writes, has set to color exactly the pixels
\* (floor(y1 + k*dy/d), floor(x1 + k*dx/d)), k = 0..d, both end points among
\* them, and has left every other pixel as it was on entry.
C3_LinePixels ==
    (LineReturned /\ LineD(args.x1, args.y1, args.x2, args.y2) > 0) =>
        /\ pc = "done"
        /\ Len(writes) = LineD(args.x1, args.y1, args.x2, args.y2) + 1
        /\ \A p \in Pixels(shape) :
              canvas[p] = IF p \in SegmentPixels(args.x1, args.y1, args.x2, args.y2)
                          THEN args.color ELSE entry[p]

\* C5 as stated: a call of fill_line with coincident end points (d = 0) ends
\* in a division-by-zero failure and never completes normally.
C5_ZeroLengthFails ==
    (LineReturned /\ LineD(args.x1, args.y1, args.x2, args.y2) = 0) =>
        pc = "error" /\ err = "ZeroDivisionError"

\* C5 amended: a call of fill_line with coincident end points fails with
\* ZeroDivisionError, the canvas untouched, when the coordinates are built-in
\* ints; when they are NumPy integer scalars the divisions give nan, the call
\* completes and has written color to the single pixel (y1, x1).
C5_ZeroLengthByScalarKind ==
    (LineReturned /\ LineD(args.x1, args.y1, args.x2, args.y2) = 0) =>
        IF args.numpy
        THEN /\ pc = "done"
             /\ err = "none"
             /\ writes = <<<<args.y1, args.x1>>>>
             /\ canvas = [entry EXCEPT ![<<args.y1, args.x1>>] = args.color]
        ELSE /\ pc = "error"
             /\ err = "ZeroDivisionError"
             /\ canvas = entry

\* a zero-length call on built-in ints has ended in ZeroDivisionError
C5_Witness ==
    /\ LineReturned
    /\ LineD(args.x1, args.y1, args.x2, args.y2) = 0
    /\ ~args.numpy
    /\ err = "ZeroDivisionError"

(***************************************************************************)
(* Properties of random_polygons_array, checked under SpecPoly.            *)
(***************************************************************************)
\* the number of loop steps fill_line makes for the segments es
RECURSIVE EdgeSteps(_)
EdgeSteps(es) ==
    IF es = <<>> THEN 0
    ELSE LineD(Head(es)[1], Head(es)[2], Head(es)[3], Head(es)[4]) + 1 + EdgeSteps(Tail(es))

\* C9: every edge that random_polygons_array passes to fill_line joins two
\* distinct vertices: fill_line is never reached with d = 0.
C9_NoDegenerateEdge ==
    fn = "polygons" =>
        \A k \in 1..Len(edges) :
            LineD(edges[k][1], edges[k][2], edges[k][3], edges[k][4]) > 0

\* C10: every write fill_line makes for random_polygons_array, at each of the
\* d+1 steps of each edge, addresses a row in 0..shape[0]-1 and a column in
\* 0..shape[1]-1: no index is out of range and none is negative.
C10_WritesInBounds ==
    fn = "polygons" =>
        /\ pc # "error"
        /\ err = "none"
        /\ Len(writes) = EdgeSteps(edges)
        /\ \A k \in 1..Len(writes) : writes[k] \in Pixels(shape)

\* a polygon with an edge of several steps has been drawn up to the last row
\* and the first column of a canvas with more than one row and column
C10_Witness ==
    /\ fn = "polygons"
    /\ pc = "done"
    /\ shape[1] > 1 /\ shape[2] > 1
    /\ Len(writes) > 2 * Len(edges)
    /\ \E k \in 1..Len(writes) : writes[k][1] = shape[1] - 1
    /\ \E k \in 1..Len(writes) : writes[k][2] = 0

(***************************************************************************)
(* Properties of random_camouflage_array and random_shapes_array, checked  *)
(* under SpecStamp.                                                        *)
(***************************************************************************)
\* colour of the last primitive of ps whose region contains p, 0 if none does
LastColor(ps, p) ==
    LET ks == {k \in 1..Len(ps) : p \in ps[k].region}
    IN  IF ks = {} THEN 0
        ELSE ps[CHOOSE k \in ks : \A m \in ks : m <= k].color

\* the primitives stamped before the last one
Earlier == SubSeq(prims, 1, Len(prims) - 1)

\* C6 as stated: the pixels a circle sets to its colour are exactly the
\* canvas pixels at distance <= size/2 (true division) from its centre.
C6_CircleRadiusHalfSize ==
    (fn = "shapes" /\ i > 0 /\ last.kind = "circle") =>
        \A p \in Pixels(shape) :
            canvas[p] = IF 4 * Dist2(p, last.cx, last.cy) <= last.size * last.size
                        THEN last.color ELSE LastColor(Earlier, p)

\* C6 amended: the pixels a circle sets to its colour are exactly the canvas
\* pixels at distance <= size//2 (floor division) from its centre; every
\* other pixel keeps the value it had.
C6_CircleRadiusFloorHalfSize ==
    (fn = "shapes" /\ i > 0 /\ last.kind = "circle") =>
        \A p \in Pixels(shape) :
            canvas[p] = IF Dist2(p, last.cx, last.cy) <= (last.size \div 2) * (last.size \div 2)
                        THEN last.color ELSE LastColor(Earlier, p)

\* a circle of odd size has been stamped on a canvas with a pixel farther
\* than size//2 and no farther than size/2 from its centre
C6_Witness ==
    /\ fn = "shapes" /\ i > 0 /\ last.kind = "circle"
    /\ last.size % 2 = 1
    /\ \E p \in Pixels(shape) :
          /\ Dist2(p, last.cx, last.cy) > (last.size \div 2) * (last.size \div 2)
          /\ 4 * Dist2(p, last.cx, last.cy) <= last.size * last.size

\* C7: a camouflage patch sets to its colour exactly the on-canvas pixels of
\* [cx - s//2, cx + s//2) x [cy - s//2, cy + s//2), the last column and the
\* last row included when the rectangle reaches them.
C7_PatchFillsRectangle ==
    (fn = "camouflage" /\ i > 0 /\ last.stamped) =>
        \A p \in Pixels(shape) :
            canvas[p] = IF /\ last.cx - last.size \div 2 <= p[2]
                           /\ p[2] < last.cx + last.size \div 2
                           /\ last.cy - last.size \div 2 <= p[1]
                           /\ p[1] < last.cy + last.size \div 2
                        THEN last.color ELSE LastColor(Earlier, p)

\* C8: in random_camouflage_array and random_shapes_array every pixel holds
\* the colour of the last primitive stamped so far whose filled region
\* contains it, 0 if none does; so every value is 0 or a palette colour
\* (camouflage), 0 or an integer in 1..254 (shapes).
C8_LastWriteWins ==
    fn \in {"camouflage", "shapes"} =>
        \A p \in Pixels(shape) :
            /\ canvas[p] = LastColor(prims, p)
            /\ fn = "camouflage" => canvas[p] \in {0} \cup Palette
            /\ fn = "shapes" => canvas[p] \in 0..254

\* two primitives of different colours overlap, the second covering the
\* first only in part
C8_Witness ==
    /\ fn = "shapes"
    /\ Len(prims) = 2
    /\ prims[1].color # prims[2].color
    /\ prims[1].region \cap prims[2].region # {}
    /\ prims[1].region \ prims[2].region # {}

(***************************************************************************)
(* The three generators, checked under Spec.                               *)
(***************************************************************************)
\* C2: each of the three random-canvas generators always completes and
\* returns an array of the requested shape, all zeros when num_* is 0.
C2_GeneratorsReturn ==
    fn \in {"camouflage", "polygons", "shapes"} =>
        /\ pc # "error"
        /\ pc = "done" =>
              /\ DOMAIN canvas = Pixels(shape)
              /\ args.num = 0 => canvas = Zeros(shape)

(***************************************************************************)
(* Properties of ellipse_phantom, checked under SpecEllipse.               *)
(***************************************************************************)
\* C1: every pixel of the phantom holds the summed intensity of exactly the
\* ellipses whose quadratic form at the pixel's coordinate is <= 1: the
\* bounding box never excludes a pixel inside the ellipse.
C1_PhantomIsSum == fn = "ellipse" => canvas = expected

\* C4 as stated: when the bounding box of an ellipse ends past the canvas
\* along some axis, indexing with it fails and the call ends in an error.
C4_OverhangFails ==
    (fn = "ellipse" /\ i > 0 /\ last.overhang) => pc = "error"

\* C4 amended: when the bounding box of an ellipse ends past the canvas
\* along some axis, indexing with it raises nothing: the slices are
\* truncated at the end of the axis and the call goes on.
C4_OverhangTruncated ==
    (fn = "ellipse" /\ i > 0 /\ last.overhang) => pc # "error" /\ err = "none"

\* a call whose last ellipse had a bounding box ending past the canvas has
\* returned its phantom
C4_Witness == fn = "ellipse" /\ i > 0 /\ last.overhang /\ pc = "done"

====
